---- MODULE Spec2Model ----
(***************************************************************************)
(* Model of subliminal/providers/opensubtitles.py: the candidate subtitle  *)
(* (OpenSubtitlesSubtitle) with its match scoring, and the provider        *)
(* (OpenSubtitlesProvider) with construction, search and download.         *)
(*                                                                         *)
(* Encoding of Python values:                                              *)
(*   - None in a string field is NoneStr, in a text/name field NoneSeq,    *)
(*     in a number field 0 (None and 0 are both falsy in Python);          *)
(*   - names and texts are sequences of tokens, so that the regular        *)
(*     expression, basename and the line-ending fix-up are computed;       *)
(*   - video.hashes is a function whose domain is the set of hash names.   *)
(***************************************************************************)
EXTENDS Integers, Sequences, FiniteSets, TLC

VARIABLES
    args,        \* arguments of the constructor call
    provider,    \* the provider object (or the exception of its constructor)
    video,       \* the video searched for / scored against
    languages,   \* the wanted languages of the search
    request,     \* set of the criteria records handed to api.search
    response,    \* set of the response.data the search answered with
    subtitles,   \* the list returned by list_subtitles
    download,    \* the last api.download exchange
    sub,         \* the candidate get_matches was called on
    acc,         \* tags accumulated by get_matches before the hash step
    matches,     \* the set returned by get_matches
    op,          \* the last operation
    outcome      \* "returned" or "raised"

vars == <<args, provider, video, languages, request, response, subtitles,
          download, sub, acc, matches, op, outcome>>

MaxNum == 2
MaxRows == 2

NoneStr == "None"
NoneSeq == <<"None">>
QUOTE == "\""
SPACE == " "

Truthy(s) == s # NoneStr /\ s # ""
TruthySeq(s) == s # NoneSeq /\ s # <<>>

-----------------------------------------------------------------------------
(* Collaborators                                                           *)

\* ..matches.guess_matches: each equal, non-empty pair contributes its tag.
guess_matches(v, guess) ==
    IF v.kind = "Episode"
    THEN {t \in {"series"} : TruthySeq(v.series) /\ guess.title = v.series}
         \cup {t \in {"episode_title"} : TruthySeq(v.title) /\ guess.episode_title = v.title}
         \cup {t \in {"year"} : v.year # 0 /\ guess.year = v.year}
         \cup {t \in {"season"} : v.season # 0 /\ guess.season = v.season}
         \cup {t \in {"episode"} : v.episode # 0 /\ guess.episode = v.episode}
    ELSE {t \in {"title"} : TruthySeq(v.title) /\ guess.title = v.title}
         \cup {t \in {"year"} : v.year # 0 /\ guess.year = v.year}

\* guessit.guessit is an external parser: its result is one of these guesses,
\* or it raises.
GuessError == [title |-> NoneSeq, episode_title |-> NoneSeq, year |-> 0 - 1,
               season |-> 0 - 1, episode |-> 0 - 1]
Guesses ==
    { [title |-> NoneSeq, episode_title |-> NoneSeq, year |-> 0, season |-> 0, episode |-> 0],
      [title |-> <<"Film">>, episode_title |-> NoneSeq, year |-> 1, season |-> 0, episode |-> 0],
      [title |-> <<"Show">>, episode_title |-> NoneSeq, year |-> 0, season |-> 1, episode |-> 2],
      [title |-> <<"Show">>, episode_title |-> <<"Pilot">>, year |-> 1, season |-> 1, episode |-> 1] }
guessit == Guesses \cup {GuessError}

-----------------------------------------------------------------------------
(* OpenSubtitlesSubtitle                                                   *)

\* __init__; content is the attribute of the Subtitle base class
OpenSubtitlesSubtitle(language, hearing_impaired, page_link, subtitle_id, matched_by, movie_kind, hash, movie_name, movie_release_name, movie_year, movie_imdb_id, series_season, series_episode, filename, encoding) ==
    [language |-> language, hearing_impaired |-> hearing_impaired,
     page_link |-> page_link, encoding |-> encoding, content |-> NoneSeq,
     subtitle_id |-> subtitle_id, matched_by |-> matched_by, movie_kind |-> movie_kind,
     hash |-> hash, movie_name |-> movie_name, movie_release_name |-> movie_release_name,
     movie_year |-> movie_year, movie_imdb_id |-> movie_imdb_id,
     series_season |-> series_season, series_episode |-> series_episode,
     filename |-> filename]

\* series_re = ^"(?P<series_name>.*)" (?P<series_title>.*)$ ; the greedy
\* series_name ends at the last quote that is followed by a space.
series_re_ends(name) ==
    {i \in 2..(Len(name) - 1) : name[1] = QUOTE /\ name[i] = QUOTE /\ name[i + 1] = SPACE}
series_re_match(name) == series_re_ends(name) # {}
series_re_end(name) ==
    CHOOSE i \in series_re_ends(name) : \A j \in series_re_ends(name) : j <= i

series_name(s) == SubSeq(s.movie_name, 2, series_re_end(s.movie_name) - 1)
series_title(s) == SubSeq(s.movie_name, series_re_end(s.movie_name) + 2, Len(s.movie_name))

KindGateEpisodeOnly(s, v) == v.kind = "Episode" /\ s.movie_kind # "episode"

\* the first test of get_matches: TRUE when it returns set() at once
KindGate(s, v) ==
    \/ (v.kind = "Episode" /\ s.movie_kind # "episode")
    \/ (v.kind = "Movie" /\ s.movie_kind # "movie")

DirectMatches(s, v) ==
    guess_matches(v, [title |-> IF s.movie_kind = "episode" THEN series_name(s) ELSE s.movie_name,
                      episode_title |-> IF s.movie_kind = "episode" THEN series_title(s) ELSE NoneSeq,
                      year |-> s.movie_year,
                      season |-> s.series_season,
                      episode |-> s.series_episode])

TagBonus(s, v) ==
    IF s.matched_by = "tag" /\ (~Truthy(v.imdb_id) \/ s.movie_imdb_id = v.imdb_id)
    THEN IF s.movie_kind = "episode" THEN {"series", "year", "season", "episode"}
         ELSE IF s.movie_kind = "movie" THEN {"title", "year"}
         ELSE {}
    ELSE {}

HashStepAlways(s, v, m) ==
    IF "opensubtitles" \in DOMAIN v.hashes /\ s.hash = v.hashes["opensubtitles"]
    THEN m \cup {"hash"}
    ELSE m

HashStep(s, v, m) ==
    IF "opensubtitles" \in DOMAIN v.hashes /\ s.hash = v.hashes["opensubtitles"]
    THEN IF s.movie_kind = "movie" /\ "title" \in m
         THEN m \cup {"hash"}
         ELSE IF s.movie_kind = "episode" /\ "series" \in m /\ "season" \in m /\ "episode" \in m
              THEN m \cup {"hash"}
              ELSE m
    ELSE m

ImdbStepNever(s, v, m) == m

ImdbStep(s, v, m) ==
    IF Truthy(v.imdb_id) /\ s.movie_imdb_id = v.imdb_id
    THEN m \cup {"imdb_id"}
    ELSE m

Accumulated(s, v, g1, g2) ==
    DirectMatches(s, v) \cup TagBonus(s, v) \cup guess_matches(v, g1) \cup guess_matches(v, g2)

\* get_matches as a function of the candidate, the video and the two results
\* of guessit (release name, file name)
get_matches(s, v, g1, g2) ==
    IF KindGate(s, v)
    THEN [outcome |-> "returned", acc |-> {}, matches |-> {}]
    ELSE IF \/ (s.movie_kind = "episode" /\ ~series_re_match(s.movie_name))
            \/ g1 = GuessError
            \/ g2 = GuessError
         THEN [outcome |-> "raised", acc |-> {}, matches |-> {}]
         ELSE [outcome |-> "returned",
               acc |-> Accumulated(s, v, g1, g2),
               matches |-> ImdbStep(s, v, HashStep(s, v, Accumulated(s, v, g1, g2)))]

\* the results of the two guessit calls of one get_matches call: guessit is
\* called only past the first test
NotCalled == [title |-> NoneSeq, episode_title |-> NoneSeq, year |-> 0, season |-> 0, episode |-> 0]
guessit_calls(s, v) ==
    IF KindGate(s, v) THEN {<<NotCalled, NotCalled>>} ELSE guessit \X guessit

-----------------------------------------------------------------------------
(* Language codes                                                          *)

English == [alpha3 |-> "eng", country |-> NoneStr]
Language == { [alpha3 |-> "eng", country |-> "US"], [alpha3 |-> "eng", country |-> "GB"],
              [alpha3 |-> "spa", country |-> NoneStr], [alpha3 |-> "por", country |-> "BR"] }

\* babelfish: Language.opensubtitles, the code of a language for the service
opensubtitles(lang) ==
    IF lang.alpha3 = "por" /\ lang.country = "BR" THEN "pob" ELSE lang.alpha3

\* babelfish: Language.fromopensubtitles; codes outside the table raise
OpenSubtitlesCodes ==
    [eng |-> English, spa |-> [alpha3 |-> "spa", country |-> NoneStr],
     pob |-> [alpha3 |-> "por", country |-> "BR"]]
fromopensubtitles_known(code) == code \in DOMAIN OpenSubtitlesCodes
fromopensubtitles(code) == OpenSubtitlesCodes[code]

\* iso639: the registry keyed by part3, with the two-letter code of each entry
Part3Registry == [eng |-> "en", spa |-> "es", por |-> "pt"]
convert_language_code_known(three_letter_code) == three_letter_code \in DOMAIN Part3Registry
convert_language_code(three_letter_code) == Part3Registry[three_letter_code]

\* the order of Python strings on the two-letter codes
CodeOrder == <<"en", "es", "pt">>
CodeRank(c) == CHOOSE i \in 1..Len(CodeOrder) : CodeOrder[i] = c
CodeLeq(a, b) == CodeRank(a) <= CodeRank(b)

\* sorted(...) of a sequence of codes
RECURSIVE Insert(_, _)
Insert(c, s) ==
    IF s = <<>> THEN <<c>>
    ELSE IF CodeLeq(c, Head(s)) THEN <<c>> \o s
    ELSE <<Head(s)>> \o Insert(c, Tail(s))
RECURSIVE sorted(_)
sorted(s) == IF s = <<>> THEN <<>> ELSE Insert(Head(s), sorted(Tail(s)))

\* sorted(wanted_languages): the set as a list, in the order of the languages
LanguageOrder ==
    << [alpha3 |-> "eng", country |-> "GB"], [alpha3 |-> "eng", country |-> "US"],
       [alpha3 |-> "por", country |-> "BR"], [alpha3 |-> "spa", country |-> NoneStr] >>
RECURSIVE sorted_languages_from(_, _)
sorted_languages_from(wanted, i) ==
    IF i > Len(LanguageOrder) THEN <<>>
    ELSE (IF LanguageOrder[i] \in wanted THEN <<LanguageOrder[i]>> ELSE <<>>)
         \o sorted_languages_from(wanted, i + 1)
sorted_languages(wanted) == sorted_languages_from(wanted, 1)

\* the languages argument of api.search: the codes that ','.join puts in one
\* string, kept as the list of its comma-separated parts
QueryLanguages(wanted_languages) ==
    sorted([i \in 1..Len(sorted_languages(wanted_languages)) |->
              convert_language_code(opensubtitles(sorted_languages(wanted_languages)[i]))])

-----------------------------------------------------------------------------
(* OpenSubtitlesProvider                                                   *)

PartialCredentialsAny(username, password, api_key) ==
    Truthy(username) \/ Truthy(password) \/ Truthy(api_key)

\* any((username, password, api_key)) and not all((username, password, api_key))
PartialCredentials(username, password, api_key) ==
    /\ (Truthy(username) \/ Truthy(password) \/ Truthy(api_key))
    /\ ~(Truthy(username) /\ Truthy(password) /\ Truthy(api_key))

OrEmpty(x) == IF Truthy(x) THEN x ELSE ""

\* __init__: the object built, or the exception raised
OpenSubtitlesProvider(username, password, api_key, app_name) ==
    IF PartialCredentials(username, password, api_key)
    THEN [status |-> "ConfigurationError", username |-> NoneStr, password |-> NoneStr,
          api_key |-> NoneStr, api |-> <<NoneStr, NoneStr>>]
    ELSE [status |-> "constructed", username |-> OrEmpty(username),
          password |-> OrEmpty(password), api_key |-> OrEmpty(api_key),
          api |-> <<app_name, api_key>>]

\* the rows a search response may hold
Rows ==
    { [language |-> "eng", hearing_impaired |-> FALSE, file_id |-> 11,
       movie_name |-> <<"Film">>, release |-> <<"Film", ".", "x264">>, year |-> 1,
       imdb_id |-> 1, season_number |-> 0, episode_number |-> 0, moviehash |-> "h1"],
      [language |-> "pob", hearing_impaired |-> TRUE, file_id |-> 22,
       movie_name |-> <<QUOTE, "Show", QUOTE, SPACE, "Pilot">>, release |-> <<"Show", ".", "S01E02">>,
       year |-> 2, imdb_id |-> 2, season_number |-> 1, episode_number |-> 2, moviehash |-> "h2"],
      [language |-> "xxx", hearing_impaired |-> FALSE, file_id |-> 33,
       movie_name |-> <<"Film">>, release |-> <<"Film", ".", "x264">>, year |-> 1,
       imdb_id |-> 1, season_number |-> 0, episode_number |-> 0, moviehash |-> "h1"] }

\* what api.search does: it raises, or answers with response.data
SearchError == [raises |-> TRUE, data |-> <<>>]
Responses == {[raises |-> FALSE, data |-> d] : d \in UNION {[1..n -> Rows] : n \in 0..MaxRows}}

MapRowWithKind(subtitle_item, hash) ==
    OpenSubtitlesSubtitle(fromopensubtitles(subtitle_item.language), subtitle_item.hearing_impaired,
                          NoneStr, subtitle_item.file_id, NoneStr, "movie", hash,
                          subtitle_item.movie_name, subtitle_item.release, subtitle_item.year,
                          "tt" \o ToString(subtitle_item.imdb_id), subtitle_item.season_number,
                          subtitle_item.episode_number, NoneSeq, "UTF-8")

MapRowSwapped(subtitle_item, hash) ==
    OpenSubtitlesSubtitle(fromopensubtitles(subtitle_item.language), subtitle_item.hearing_impaired,
                          NoneStr, subtitle_item.file_id, NoneStr, NoneStr, hash,
                          subtitle_item.movie_name, subtitle_item.release, subtitle_item.year,
                          "tt" \o ToString(subtitle_item.imdb_id), subtitle_item.episode_number,
                          subtitle_item.season_number, NoneSeq, "UTF-8")

\* the body of the loop of query: one candidate from one row
MapRow(subtitle_item, hash) ==
    OpenSubtitlesSubtitle(fromopensubtitles(subtitle_item.language), subtitle_item.hearing_impaired,
                          NoneStr, subtitle_item.file_id, NoneStr, NoneStr, hash,
                          subtitle_item.movie_name, subtitle_item.release, subtitle_item.year,
                          "tt" \o ToString(subtitle_item.imdb_id), subtitle_item.season_number,
                          subtitle_item.episode_number, NoneSeq, "UTF-8")

\* the keyword arguments of api.search
SearchRequest(wanted_languages, hash, imdb_id, query_, season, episode) ==
    [episode_number |-> episode, moviehash |-> hash, query |-> query_,
     season_number |-> season, imdb_id |-> imdb_id,
     languages |-> QueryLanguages(wanted_languages)]

\* query, with the behaviour of api.search as its last parameter
query(wanted_languages, hash, size, imdb_id, query_, season, episode, tag, remote) ==
    IF \E l \in wanted_languages : ~convert_language_code_known(opensubtitles(l))
    THEN [outcome |-> "raised", request |-> {}, response |-> {}, subtitles |-> <<>>]
    ELSE IF remote.raises
    THEN [outcome |-> "raised", response |-> {}, subtitles |-> <<>>,
          request |-> {SearchRequest(wanted_languages, hash, imdb_id, query_, season, episode)}]
    ELSE IF \E i \in 1..Len(remote.data) : ~fromopensubtitles_known(remote.data[i].language)
    THEN [outcome |-> "raised", response |-> {remote.data}, subtitles |-> <<>>,
          request |-> {SearchRequest(wanted_languages, hash, imdb_id, query_, season, episode)}]
    ELSE [outcome |-> "returned", response |-> {remote.data},
          subtitles |-> [i \in 1..Len(remote.data) |-> MapRow(remote.data[i], hash)],
          request |-> {SearchRequest(wanted_languages, hash, imdb_id, query_, season, episode)}]

\* os.path.basename: what follows the last separator
RECURSIVE basename(_)
basename(name) ==
    IF name = <<>> THEN <<>>
    ELSE IF name[Len(name)] = "/" THEN <<>>
    ELSE basename(SubSeq(name, 1, Len(name) - 1)) \o <<name[Len(name)]>>

\* video.hashes.get('opensubtitles')
hashes_get(v) ==
    IF "opensubtitles" \in DOMAIN v.hashes THEN v.hashes["opensubtitles"] ELSE NoneStr

list_subtitles(v, wanted_languages, remote) ==
    IF v.kind = "Episode"
    THEN query(wanted_languages, hashes_get(v), v.size, v.imdb_id, v.series, v.season, v.episode,
               basename(v.name), remote)
    ELSE query(wanted_languages, hashes_get(v), v.size, v.imdb_id, v.title, 0, 0,
               basename(v.name), remote)

\* ..subtitle.fix_line_ending: "\r\n" becomes "\n"
RECURSIVE fix_line_ending(_)
fix_line_ending(content) ==
    IF content = <<>> THEN <<>>
    ELSE IF Len(content) > 1 /\ content[1] = "CR" /\ content[2] = "LF"
    THEN <<"LF">> \o fix_line_ending(SubSeq(content, 3, Len(content)))
    ELSE <<Head(content)>> \o fix_line_ending(Tail(content))

\* what api.download does: it raises, or answers with the raw text
DownloadError == <<"error">>
Texts == { <<"a", "CR", "LF", "b", "CR", "LF">>, <<"c", "LF">> }

download_subtitleOnce(subtitle, text) ==
    IF subtitle.content = NoneSeq
    THEN [subtitle EXCEPT !.content = fix_line_ending(text)]
    ELSE subtitle

\* download_subtitle on a successful api.download
download_subtitle(subtitle, text) ==
    [subtitle EXCEPT !.content = fix_line_ending(text)]

-----------------------------------------------------------------------------
(* Inputs                                                                  *)

Movie(title, imdb_id, hashes) ==
    [kind |-> "Movie", title |-> title, series |-> NoneSeq, season |-> 0, episode |-> 0,
     year |-> 1, imdb_id |-> imdb_id, hashes |-> hashes, size |-> 700,
     name |-> <<"videos", "/", "Film.mkv">>]
Episode(title, imdb_id, hashes) ==
    [kind |-> "Episode", title |-> title, series |-> <<"Show">>, season |-> 1, episode |-> 2,
     year |-> 1, imdb_id |-> imdb_id, hashes |-> hashes, size |-> 350,
     name |-> <<"videos", "/", "Show.S01E02.mkv">>]

Hashes == {[n \in N |-> "h1"] : N \in SUBSET {"opensubtitles"}}
ImdbIds == {NoneStr, "", "tt1"}
Videos ==
    {Movie(<<"Film">>, i, h) : i \in ImdbIds, h \in Hashes}
    \cup {Episode(<<"Pilot">>, i, h) : i \in ImdbIds, h \in Hashes}

MovieNames == { <<"Film">>, <<QUOTE, "Show", QUOTE, SPACE, "Pilot">>, <<"Show">> }
Candidates ==
    { OpenSubtitlesSubtitle(English, FALSE, NoneStr, 11, mb, k, h, n, NoneSeq, y, i, se, ep,
                            NoneSeq, "UTF-8") :
        mb \in {NoneStr, "tag"}, k \in {NoneStr, "movie", "episode"}, h \in {"h1", "h2"},
        n \in MovieNames, y \in 0..1, i \in {"tt1", "tt2"},
        se \in 1..MaxNum, ep \in 1..MaxNum }

Credentials ==
    [username : {NoneStr, "", "user"}, password : {NoneStr, "", "pass"},
     api_key : {NoneStr, "", "key"}, app_name : {NoneStr, "app"}]

NoArgs == [username |-> NoneStr, password |-> NoneStr, api_key |-> NoneStr, app_name |-> NoneStr]
NoProvider == [status |-> "unconstructed", username |-> NoneStr, password |-> NoneStr,
               api_key |-> NoneStr, api |-> <<NoneStr, NoneStr>>]
NoVideo == [Movie(NoneSeq, NoneStr, [n \in {} |-> "h1"]) EXCEPT !.kind = "None"]
NoSub == OpenSubtitlesSubtitle(English, FALSE, NoneStr, 0, NoneStr, NoneStr, NoneStr, NoneSeq,
                               NoneSeq, 0, NoneStr, 0, 0, NoneSeq, "UTF-8")
NoDownload == [index |-> 0, file_id |-> 0, text |-> NoneSeq]

-----------------------------------------------------------------------------
(* The provider: one search, then downloads and scorings of its candidates *)

Init ==
    /\ args = NoArgs
    /\ provider = OpenSubtitlesProvider(NoneStr, NoneStr, NoneStr, NoneStr)
    /\ video = NoVideo
    /\ languages = {}
    /\ request = {}
    /\ response = {}
    /\ subtitles = <<>>
    /\ download = NoDownload
    /\ sub = NoSub
    /\ acc = {}
    /\ matches = {}
    /\ op = "none"
    /\ outcome = "none"

ListSubtitles(v, wanted, remote) ==
    /\ op = "none"
    /\ video' = v
    /\ languages' = wanted
    /\ request' = list_subtitles(v, wanted, remote).request
    /\ response' = list_subtitles(v, wanted, remote).response
    /\ subtitles' = list_subtitles(v, wanted, remote).subtitles
    /\ outcome' = list_subtitles(v, wanted, remote).outcome
    /\ op' = "list_subtitles"
    /\ UNCHANGED <<args, provider, download, sub, acc, matches>>

DownloadSubtitle(i, text) ==
    /\ op # "none"
    /\ i \in 1..Len(subtitles)
    /\ download' = [index |-> i, file_id |-> subtitles[i].subtitle_id, text |-> text]
    /\ IF text = DownloadError
       THEN outcome' = "raised" /\ UNCHANGED subtitles
       ELSE /\ outcome' = "returned"
            /\ subtitles' = [subtitles EXCEPT ![i] = download_subtitle(subtitles[i], text)]
    /\ op' = "download_subtitle"
    /\ sub' = NoSub
    /\ acc' = {}
    /\ matches' = {}
    /\ UNCHANGED <<args, provider, video, languages, request, response>>

GetMatches(i, v) ==
    /\ op # "none"
    /\ i \in 1..Len(subtitles)
    /\ sub' = subtitles[i]
    /\ \E g \in guessit_calls(subtitles[i], v) :
          /\ acc' = get_matches(subtitles[i], v, g[1], g[2]).acc
          /\ matches' = get_matches(subtitles[i], v, g[1], g[2]).matches
          /\ outcome' = get_matches(subtitles[i], v, g[1], g[2]).outcome
    /\ op' = "get_matches"
    /\ download' = NoDownload
    /\ UNCHANGED <<args, provider, video, languages, request, response, subtitles>>

Next ==
    \/ \E v \in Videos, l \in Language, remote \in Responses \cup {SearchError} :
          ListSubtitles(v, {l}, remote)
    \/ \E i \in 1..MaxRows, text \in Texts \cup {DownloadError} : DownloadSubtitle(i, text)
    \/ \E i \in 1..MaxRows, v \in Videos : GetMatches(i, v)

Spec == Init /\ [][Next]_vars

-----------------------------------------------------------------------------
(* list_subtitles on every video, set of wanted languages and response     *)

NextSearch ==
    \E v \in Videos, wanted \in SUBSET Language, remote \in Responses \cup {SearchError} :
        ListSubtitles(v, wanted, remote)

SpecSearch == Init /\ [][NextSearch]_vars

-----------------------------------------------------------------------------
(* get_matches on every candidate and video                                *)

InitMatch ==
    /\ args = NoArgs
    /\ provider = OpenSubtitlesProvider(NoneStr, NoneStr, NoneStr, NoneStr)
    /\ video \in Videos
    /\ sub \in Candidates
    /\ languages = {}
    /\ request = {}
    /\ response = {}
    /\ subtitles = <<>>
    /\ download = NoDownload
    /\ acc = {}
    /\ matches = {}
    /\ op = "none"
    /\ outcome = "none"

Score ==
    /\ op = "none"
    /\ \E g \in guessit_calls(sub, video) :
          /\ acc' = get_matches(sub, video, g[1], g[2]).acc
          /\ matches' = get_matches(sub, video, g[1], g[2]).matches
          /\ outcome' = get_matches(sub, video, g[1], g[2]).outcome
    /\ op' = "get_matches"
    /\ UNCHANGED <<args, provider, video, languages, request, response, subtitles, download, sub>>

NextMatch == Score

SpecMatch == InitMatch /\ [][NextMatch]_vars

-----------------------------------------------------------------------------
(* The constructor on every combination of credentials                     *)

InitProvider ==
    /\ args \in Credentials
    /\ provider = NoProvider
    /\ video = NoVideo
    /\ languages = {}
    /\ request = {}
    /\ response = {}
    /\ subtitles = <<>>
    /\ download = NoDownload
    /\ sub = NoSub
    /\ acc = {}
    /\ matches = {}
    /\ op = "none"
    /\ outcome = "none"

Construct ==
    /\ op = "none"
    /\ provider' = OpenSubtitlesProvider(args.username, args.password, args.api_key, args.app_name)
    /\ outcome' = IF PartialCredentials(args.username, args.password, args.api_key)
                  THEN "raised" ELSE "returned"
    /\ op' = "__init__"
    /\ UNCHANGED <<args, video, languages, request, response, subtitles, download, sub, acc, matches>>

NextProvider == Construct

SpecProvider == InitProvider /\ [][NextProvider]_vars

-----------------------------------------------------------------------------
(* Properties of get_matches, under SpecMatch                              *)

KindCorresponds ==
    \/ (video.kind = "Episode" /\ sub.movie_kind = "episode")
    \/ (video.kind = "Movie" /\ sub.movie_kind = "movie")
SameImdbId ==
    /\ video.imdb_id # NoneStr /\ video.imdb_id # ""
    /\ sub.movie_imdb_id # NoneStr /\ sub.movie_imdb_id # ""
    /\ sub.movie_imdb_id = video.imdb_id
SameHash ==
    /\ "opensubtitles" \in DOMAIN video.hashes
    /\ sub.hash = video.hashes["opensubtitles"]

\* C1: when the video is an Episode and movie_kind is not 'episode', or the
\* video is a Movie and movie_kind is not 'movie' (None included), get_matches
\* returns the empty set.
C1_KindMismatchEmpty ==
    (op = "get_matches" /\ ~KindCorresponds) => (outcome = "returned" /\ matches = {})

C1_Witness ==
    /\ op = "get_matches" /\ outcome = "returned" /\ matches = {}
    /\ video.kind = "Movie" /\ sub.movie_kind = "episode"
    /\ SameImdbId /\ SameHash /\ sub.matched_by = "tag"

\* C2, as claimed: equal, non-empty IMDB ids put imdb_id in the result of
\* get_matches whatever the outcome of the kind test.
C2_ImdbRegardlessOfKind ==
    (op = "get_matches" /\ outcome = "returned" /\ SameImdbId) => "imdb_id" \in matches

\* C2, amended: equal, non-empty IMDB ids put imdb_id in the set get_matches
\* returns when movie_kind corresponds to the type of the video; when it does
\* not, imdb_id is not in the result.
C2_ImdbWhenKindCorresponds ==
    (op = "get_matches" /\ outcome = "returned" /\ SameImdbId)
        => ("imdb_id" \in matches <=> KindCorresponds)

C2_Witness ==
    /\ op = "get_matches" /\ outcome = "returned" /\ SameImdbId /\ KindCorresponds
    /\ "imdb_id" \in matches

\* C3: hash is in the result only if the video has an 'opensubtitles' hash
\* equal to the candidate's and the tags of the earlier steps hold title
\* (movie kind) or series, season and episode (episode kind).
C3_HashOnlyIfCorroborated ==
    (op = "get_matches" /\ "hash" \in matches)
        => /\ SameHash
           /\ \/ (sub.movie_kind = "movie" /\ "title" \in acc)
              \/ (sub.movie_kind = "episode" /\ {"series", "season", "episode"} \subseteq acc)

C3_Witness ==
    /\ op = "get_matches" /\ "hash" \in matches
    /\ sub.movie_kind = "episode" /\ {"series", "season", "episode"} \subseteq acc

-----------------------------------------------------------------------------
(* Properties of the constructor, under SpecProvider                       *)

CredentialsGiven ==
    {f \in {"username", "password", "api_key"} : args[f] # NoneStr /\ args[f] # ""}

\* C4: the constructor raises ConfigurationError exactly when one or two of
\* username, password and api_key are given; otherwise it succeeds and stores
\* '' for the values not given.
C4_ConfigurationError ==
    op = "__init__" =>
        /\ (outcome = "raised" <=> Cardinality(CredentialsGiven) \in {1, 2})
        /\ (outcome = "raised" <=> provider.status = "ConfigurationError")
        /\ (outcome = "returned" =>
              /\ provider.status = "constructed"
              /\ \A f \in {"username", "password", "api_key"} :
                    provider[f] = (IF f \in CredentialsGiven THEN args[f] ELSE ""))

C4_Witness ==
    /\ op = "__init__" /\ outcome = "raised" /\ provider.status = "ConfigurationError"
    /\ args.username = "user" /\ args.password = "pass" /\ args.api_key = NoneStr

-----------------------------------------------------------------------------
(* Properties of list_subtitles and query, under SpecSearch                *)

\* C5: query returns one candidate per row of the response, in the order of
\* the response, each with the file id, language, hearing-impaired flag, movie
\* name, release name, year, season and episode of its row; a response with
\* no rows gives the empty list and no error.
C5_OneCandidatePerRow ==
    \A data \in response :
        /\ (data = <<>> => (outcome = "returned" /\ subtitles = <<>>))
        /\ (outcome = "returned" =>
              /\ Len(subtitles) = Len(data)
              /\ \A i \in 1..Len(data) :
                    /\ subtitles[i].subtitle_id = data[i].file_id
                    /\ subtitles[i].language = OpenSubtitlesCodes[data[i].language]
                    /\ subtitles[i].hearing_impaired = data[i].hearing_impaired
                    /\ subtitles[i].movie_name = data[i].movie_name
                    /\ subtitles[i].movie_release_name = data[i].release
                    /\ subtitles[i].movie_year = data[i].year
                    /\ subtitles[i].series_season = data[i].season_number
                    /\ subtitles[i].series_episode = data[i].episode_number)

C5_Witness ==
    /\ op = "list_subtitles" /\ outcome = "returned" /\ Len(subtitles) = MaxRows
    /\ \E data \in response : Len(data) = MaxRows /\ data[1] # data[MaxRows]

\* C6, as claimed: the request sent to the service carries the file hash, the
\* file size, the IMDB id and a tag equal to the base name of the video file,
\* with the series, season and episode of an Episode or the title of a Movie.
C6_RequestCarriesAllCriteria ==
    \A r \in request :
        /\ r.moviehash = (IF "opensubtitles" \in DOMAIN video.hashes
                          THEN video.hashes["opensubtitles"] ELSE NoneStr)
        /\ r.imdb_id = video.imdb_id
        /\ r.query = (IF video.kind = "Episode" THEN video.series ELSE video.title)
        /\ (video.kind = "Episode" =>
              (r.season_number = video.season /\ r.episode_number = video.episode))
        /\ "size" \in DOMAIN r
        /\ r.size = video.size
        /\ "tag" \in DOMAIN r
        /\ r.tag = <<video.name[Len(video.name)]>>

\* the two-letter code the registries give each wanted language
WantedCode(l) == Part3Registry[IF l.alpha3 = "por" /\ l.country = "BR" THEN "pob" ELSE l.alpha3]

\* C7, as claimed: the language criterion is the converted codes of the wanted
\* languages in ascending order, no code twice.
C7_LanguagesSortedNoDuplicate ==
    \A r \in request :
        /\ {r.languages[i] : i \in 1..Len(r.languages)} = {WantedCode(l) : l \in languages}
        /\ \A i \in 1..(Len(r.languages) - 1) :
              /\ CodeLeq(r.languages[i], r.languages[i + 1])
              /\ r.languages[i] # r.languages[i + 1]

\* C9, as claimed: the hash of every candidate list_subtitles returns is the
\* hash the remote record of its row reports, whatever the hash of the video.
C9_HashFromRemoteRecord ==
    \A data \in response :
        outcome = "returned" =>
            \A i \in 1..Len(subtitles) : subtitles[i].hash = data[i].moviehash

-----------------------------------------------------------------------------
(* Properties of the candidates of a search, under Spec                    *)

SameButContent(a, b) == [a EXCEPT !.content = NoneSeq] = [b EXCEPT !.content = NoneSeq]

\* what every step keeps of the claim on download_subtitle: content absent
\* until a successful download, a raising download changes nothing, no field
\* but content is modified
DownloadFrame ==
    /\ (op' = "list_subtitles" =>
          \A i \in 1..Len(subtitles') : subtitles'[i].content = NoneSeq)
    /\ (op' # "list_subtitles" =>
          /\ Len(subtitles') = Len(subtitles)
          /\ \A i \in 1..Len(subtitles) :
                /\ SameButContent(subtitles'[i], subtitles[i])
                /\ (subtitles'[i].content # subtitles[i].content =>
                      /\ op' = "download_subtitle" /\ outcome' = "returned"
                      /\ download'.index = i))

\* C8, as claimed: content is absent until the first successful download, a
\* raising download leaves it unchanged, no other field is modified, and a
\* later download never changes content that is already set.
C8_ContentSetOnce ==
    [][/\ DownloadFrame
       /\ (op' # "list_subtitles" =>
             \A i \in 1..Len(subtitles) :
                 subtitles[i].content # NoneSeq =>
                     subtitles'[i].content = subtitles[i].content)]_vars

\* C8, amended: content is absent until the first successful download, a
\* raising download leaves it unchanged, no other field is modified, and every
\* successful download sets content to the text of its response with the line
\* endings fixed, also when content is already set.
C8_ContentSetByEachDownload ==
    [][/\ DownloadFrame
       /\ ((op' = "download_subtitle" /\ outcome' = "returned") =>
             /\ download'.file_id = subtitles[download'.index].subtitle_id
             /\ subtitles'[download'.index].content = fix_line_ending(download'.text))]_vars

C8_Witness ==
    /\ op = "download_subtitle" /\ outcome = "returned"
    /\ subtitles[download.index].content = <<"a", "LF", "b", "LF">>
    /\ download.text # subtitles[download.index].content
    /\ \E i \in 1..Len(subtitles) : i # download.index /\ subtitles[i].content = <<"c", "LF">>

\* C10: every candidate list_subtitles returns has movie_kind, matched_by and
\* filename unset, and get_matches on it returns the empty set for every
\* video, before and after a download.
C10_QueryCandidatesNeverMatch ==
    /\ \A i \in 1..Len(subtitles) :
          /\ subtitles[i].movie_kind = NoneStr
          /\ subtitles[i].matched_by = NoneStr
          /\ subtitles[i].filename = NoneSeq
    /\ (op = "get_matches" => (outcome = "returned" /\ matches = {}))

C10_Witness ==
    /\ op = "get_matches" /\ outcome = "returned" /\ matches = {}
    /\ sub.content # NoneSeq
    /\ sub.hash = "h1" /\ sub.movie_imdb_id = "tt1"
    /\ \E i \in 1..Len(subtitles) : subtitles[i].content = NoneSeq

====
